---- MODULE Spec2Model ----
(***************************************************************************)
(* A model of the Engine trait of splEngine.rs (src/src/common.rs): the    *)
(* chunk reader (read_last_chunk, read_chunk), the transaction driver      *)
(* (run_with_channel, run) and the fan-out helper (write).                 *)
(*                                                                         *)
(* A String is modelled by its UTF-8 bytes (String::from_utf8 validates    *)
(* and keeps the bytes; as_bytes gives them back).  The endpoint is a byte *)
(* stream: bytes the remote side has produced and the driver has not yet   *)
(* read are in flight in `wire`.                                           *)
(***************************************************************************)
EXTENDS Integers, Sequences, FiniteSets, TLC

(* ------------------------------ bounds --------------------------------- *)

\* The remote side produces at most MaxBytes bytes in one behaviour.
MaxBytes == 3
\* The plan (`input`) holds at most MaxPlan payloads.
MaxPlan == 2
\* REPEAT ranges over 1..MaxRepeat (default 1, SSH 3, TcpStream 5).
MaxRepeat == 2

\* '\n', 'A', and the two bytes of U+00E9 (0xC3 0xA9).
NL == 10
RemoteBytes == {10, 65, 195, 169}
\* The i-th payload of a plan: b"a", b"b\n", b"c", b"d\n", ...
Payload(i) == IF i % 2 = 1 THEN <<96 + i>> ELSE <<96 + i, 10>>

VARIABLES
    REPEAT,     \* Engine::REPEAT of the endpoint's type
    input,      \* the plan handed to run / run_with_channel
    pc,         \* position of the driver future
    idx,        \* number of payloads the for loop has finished
    first,      \* read_chunk: the decoded first byte
    buf,        \* read_last_chunk: the accumulator
    dropped,    \* read_last_chunk: the debounce slots
    chunk,      \* the chunk being forwarded (write's argument / the final chunk)
    parts,      \* the lines of chunk.split("\n") still to be sent
    r1,         \* join!: the endpoint write
    r2,         \* join!: the local echo (write_all, then write_u8)
    closed,     \* the receiver has been dropped
    queue,      \* lines placed on the unbounded channel, oldest first
    sink,       \* what has been written to stdout, in order
    remote,     \* what has been written to the endpoint, in order
    wire,       \* bytes produced by the remote side and not yet read
    result,     \* outcome of the driver future
    hist,       \* history of the run (observation only)
    arg,        \* util: the byte sequence a padding function is called on
    FINAL,      \* util: the const generic FINAL of pad_left / pad_right
    num,        \* util: the number hex_to_bytes is called on
    ret         \* util: the last call and what it returned

driverVars == <<REPEAT, input, pc, idx, first, buf, dropped, chunk, parts, r1, r2,
                closed, queue, sink, remote, wire, result, hist>>
utilVars == <<arg, FINAL, num, ret>>
vars == <<driverVars, utilVars>>

(* --------------------------- pure helpers ------------------------------ *)

Cont(b) == b >= 128 /\ b <= 191

\* Length of the well-formed UTF-8 scalar value that s starts with, 0 if none.
Utf8Width(s) ==
    LET n == Len(s)
        b1 == s[1]
    IN  IF n = 0 THEN 0
        ELSE IF b1 <= 127 THEN 1
        ELSE IF b1 >= 194 /\ b1 <= 223
             THEN IF n >= 2 /\ Cont(s[2]) THEN 2 ELSE 0
        ELSE IF b1 >= 224 /\ b1 <= 239
             THEN IF /\ n >= 3
                     /\ Cont(s[2]) /\ Cont(s[3])
                     /\ (b1 = 224 => s[2] >= 160)
                     /\ (b1 = 237 => s[2] <= 159)
                  THEN 3 ELSE 0
        ELSE IF b1 >= 240 /\ b1 <= 244
             THEN IF /\ n >= 4
                     /\ Cont(s[2]) /\ Cont(s[3]) /\ Cont(s[4])
                     /\ (b1 = 240 => s[2] >= 144)
                     /\ (b1 = 244 => s[2] <= 143)
                  THEN 4 ELSE 0
        ELSE 0

RECURSIVE from_utf8(_)
\* String::from_utf8(bytes).is_ok()
from_utf8(s) ==
    IF s = <<>> THEN TRUE
    ELSE LET w == Utf8Width(s)
         IN  w > 0 /\ from_utf8(SubSeq(s, w + 1, Len(s)))

\* A fan-out that sends the chunk as one message.
split_whole(s) == <<s>>

RECURSIVE split(_)
\* chunk.split("\n"): the pieces between newlines, always at least one piece.
split(s) ==
    IF \A i \in 1..Len(s) : s[i] # NL THEN <<s>>
    ELSE LET i == CHOOSE j \in 1..Len(s) :
                      s[j] = NL /\ \A m \in 1..(j - 1) : s[m] # NL
         IN  <<SubSeq(s, 1, i - 1)>> \o split(SubSeq(s, i + 1, Len(s)))

\* vec![false; n]
fresh(n) == [i \in 1..n |-> FALSE]

\* The for loop of the idle arm: the first slot not yet marked, 0 if none.
first_free(d) ==
    IF \A i \in DOMAIN d : d[i] THEN 0
    ELSE CHOOSE i \in DOMAIN d : ~d[i] /\ \A j \in 1..(i - 1) : d[j]

\* An accumulator that grows at the wrong end.
push_front(v, b) == <<b>> \o v

\* buf.push(b)
push(v, b) == Append(v, b)

\* A reader that forgets to reset the slots when a byte arrives.
on_byte_keep(d) == d

\* The slots after a byte was read.
on_byte(d) == fresh(Len(d))

\* A write that reports success and delivers nothing.
write_all_lost(out, item) == out

\* write_all / write_u8 on a byte sink that accepts the write: the item is
\* appended to what the sink has received.
write_all(out, item) == Append(out, item)

\* A check that never notices the dropped receiver.
is_closed_never(c) == FALSE

\* sender.is_closed()
is_closed(c) == c

\* A join that returns as soon as the endpoint write is done.
join_ready_first(a, b) == a \in {"ok", "err"}

\* join! has both results.
join_ready(a, b) == a \in {"ok", "err"} /\ b \in {"ok", "err"}

\* Only r1 is looked at.
join_result_r1(a, b) ==
    IF a = "err" THEN <<"IOError", "self.write_all">> ELSE <<"pending", "">>

\* r1?; r2?;
join_result(a, b) ==
    IF a = "err" THEN <<"IOError", "self.write_all">>
    ELSE IF b = "err" THEN <<"IOError", "stdout.echo">>
    ELSE <<"pending", "">>

Plans == {[i \in 1..n |-> Payload(i)] : n \in 0..MaxPlan}

Recv(c) == [kind |-> "recv", data |-> c]
Sent(p) == [kind |-> "sent", data |-> p]
Newline == [kind |-> "sent_nl", data |-> <<NL>>]

(* ------------------------------- Init ---------------------------------- *)

\* A task that is already running when it is handed to the caller.
created_running == "read_last"

\* The async move block is built, not run: the future starts when first polled.
created == "cold"

\* The state right after run_with_channel (or run) has been called: the
\* channel exists, the future is not yet polled.  run discards the receiver.
DriverInit ==
    /\ REPEAT \in 1..MaxRepeat
    /\ input \in Plans
    /\ closed \in BOOLEAN
    /\ pc = created
    /\ idx = 0
    /\ first = <<>>
    /\ buf = <<>>
    /\ dropped = <<>>
    /\ chunk = <<>>
    /\ parts = <<>>
    /\ r1 = "none"
    /\ r2 = "none"
    /\ queue = <<>>
    /\ sink = <<>>
    /\ remote = <<>>
    /\ wire = <<>>
    /\ result = <<"pending", "">>
    /\ hist = [entry |-> IF closed THEN "run" ELSE "run_with_channel",
               polled |-> FALSE,
               closedAtPoll |-> FALSE,
               produced |-> 0,
               emitted |-> <<>>,
               callBytes |-> <<>>,
               idleRun |-> 0,
               cancelled |-> FALSE,
               lastRead |-> "none",
               reads |-> 0]

\* No util function has been called.
NoCall == [fn |-> "none", val |-> <<>>]

Init ==
    /\ DriverInit
    /\ arg = <<>>
    /\ FINAL = 0
    /\ num = 0
    /\ ret = NoCall

(* ------------------------------ actions -------------------------------- *)

InLoop == idx < Len(input)

readerVars == <<first, buf, dropped>>
joinVars == <<r1, r2>>
chanVars == <<closed, queue>>
ioVars == <<sink, remote, wire>>
config == <<REPEAT, input>>

\* A read_chunk that puts its first byte under the idle timeout too.
AdvanceTimed(i) ==
    /\ pc' = "read_last"
    /\ buf' = <<>>
    /\ dropped' = fresh(REPEAT)

\* A driver that reads the trailing output with read_chunk.
AdvanceChunk(i) ==
    /\ pc' = "read_u8"
    /\ UNCHANGED <<buf, dropped>>

\* The for loop takes the next payload (read_chunk awaits its first byte), or
\* the plan is exhausted and the final read_last_chunk starts.
Advance(i) ==
    IF i < Len(input)
    THEN /\ pc' = "read_u8"
         /\ UNCHANGED <<buf, dropped>>
    ELSE /\ pc' = "read_last"
         /\ buf' = <<>>
         /\ dropped' = fresh(REPEAT)

\* The caller polls the future for the first time.
Poll ==
    /\ pc = "cold"
    /\ idx' = 0
    /\ Advance(0)
    /\ hist' = [hist EXCEPT !.polled = TRUE,
                            !.closedAtPoll = closed, !.callBytes = <<>>,
                            !.idleRun = 0, !.cancelled = FALSE]
    /\ UNCHANGED <<utilVars, config, first, chunk, parts, joinVars, chanVars, ioVars, result>>

\* read_chunk: self.read_u8().await yields a byte; String::from_utf8(vec![b])?
\* decodes it alone, then read_last_chunk is entered.
ReadFirst ==
    /\ pc = "read_u8"
    /\ wire # <<>>
    /\ LET b == Head(wire) IN
        /\ wire' = Tail(wire)
        /\ hist' = [hist EXCEPT !.callBytes = <<b>>, !.idleRun = 0,
                                !.lastRead = "byte"]
        /\ IF from_utf8(<<b>>)
           THEN /\ first' = <<b>>
                /\ buf' = <<>>
                /\ dropped' = fresh(REPEAT)
                /\ pc' = "read_last"
                /\ UNCHANGED result
           ELSE /\ result' = <<"FromUtf8Error", "read_chunk">>
                /\ pc' = "done"
                /\ UNCHANGED readerVars
    /\ UNCHANGED <<utilVars, config, idx, chunk, parts, joinVars, chanVars, sink, remote>>

\* read_chunk: self.read_u8().await fails; unwrap() panics.
ReadFirstErr ==
    /\ pc = "read_u8"
    /\ result' = <<"panic", "read_u8.unwrap">>
    /\ pc' = "done"
    /\ hist' = [hist EXCEPT !.callBytes = <<>>, !.lastRead = "ioerr"]
    /\ UNCHANGED <<utilVars, config, idx, readerVars, chunk, parts, joinVars, chanVars, ioVars>>

\* read_last_chunk, arm Ok(Ok(b)).
DrainByte ==
    /\ pc = "read_last"
    /\ wire # <<>>
    /\ LET b == Head(wire) IN
        /\ wire' = Tail(wire)
        /\ dropped' = on_byte(dropped)
        /\ buf' = push(buf, b)
        /\ hist' = [hist EXCEPT !.callBytes = Append(@, b), !.idleRun = 0,
                                !.cancelled = @ \/ hist.idleRun > 0,
                                !.lastRead = "byte"]
    /\ UNCHANGED <<utilVars, config, pc, idx, first, chunk, parts, joinVars, chanVars,
                   sink, remote, result>>

\* read_last_chunk, arm _ : the timeout elapsed or read_u8 failed.
IdleArm(kind) ==
    /\ hist' = [hist EXCEPT !.idleRun = @ + 1,
                            !.lastRead = IF first_free(dropped) = 0
                                         THEN "none" ELSE kind,
                            !.reads = IF first_free(dropped) = 0
                                         /\ from_utf8(buf)
                                      THEN @ + 1 ELSE @]
    /\ IF first_free(dropped) # 0
       THEN /\ dropped' = [dropped EXCEPT ![first_free(dropped)] = TRUE]
            /\ UNCHANGED <<pc, chunk, parts, result>>
       ELSE /\ UNCHANGED dropped
            /\ IF ~from_utf8(buf)
               THEN /\ result' = <<"FromUtf8Error", "read_last_chunk">>
                    /\ pc' = "done"
                    /\ UNCHANGED <<chunk, parts>>
               ELSE IF InLoop
               THEN /\ chunk' = first \o buf
                    /\ pc' = "write_is_closed"
                    /\ UNCHANGED <<parts, result>>
               ELSE /\ chunk' = buf
                    /\ parts' = split(buf)
                    /\ pc' = "final_is_closed"
                    /\ UNCHANGED result
    /\ UNCHANGED <<utilVars, config, idx, first, buf, joinVars, chanVars, ioVars>>

DrainTimeout ==
    /\ pc = "read_last"
    /\ wire = <<>>
    /\ IdleArm("timeout")

DrainIoErr ==
    /\ pc = "read_last"
    /\ IdleArm("ioerr")

\* A write that echoes the chunk and leaves the fan-out for later.
WriteEchoOnly ==
    /\ pc = "write_is_closed"
    /\ pc' = "write_stdout"
    /\ UNCHANGED <<utilVars, config, idx, readerVars, chunk, parts, joinVars, chanVars,
                   ioVars, result, hist>>

\* write: if !sender.is_closed() { for part in chunk.split("\n") ... }
WriteIsClosed ==
    /\ pc = "write_is_closed"
    /\ IF ~is_closed(closed)
       THEN /\ parts' = split(chunk)
            /\ pc' = "write_send"
       ELSE /\ pc' = "write_stdout"
            /\ UNCHANGED parts
    /\ UNCHANGED <<utilVars, config, idx, readerVars, chunk, joinVars, chanVars, ioVars,
                   result, hist>>

\* write: sender.send(part.to_owned())?
WriteSend ==
    /\ pc = "write_send"
    /\ IF closed
       THEN /\ result' = <<"SendError", "write">>
            /\ pc' = "done"
            /\ UNCHANGED <<queue, parts>>
       ELSE /\ queue' = Append(queue, Head(parts))
            /\ parts' = Tail(parts)
            /\ pc' = IF Tail(parts) = <<>> THEN "write_stdout" ELSE "write_send"
            /\ UNCHANGED result
    /\ UNCHANGED <<utilVars, config, idx, readerVars, chunk, joinVars, closed, ioVars, hist>>

\* write: Ok(stdout().write_all(chunk.as_bytes()).await?), then join! starts.
WriteStdout(ok) ==
    /\ pc = "write_stdout"
    /\ IF ok
       THEN /\ sink' = write_all(sink, Recv(chunk))
            /\ pc' = "join"
            /\ r1' = "pending"
            /\ r2' = "write_all"
            /\ UNCHANGED result
       ELSE /\ result' = <<"IOError", "write.stdout">>
            /\ pc' = "done"
            /\ UNCHANGED <<sink, joinVars>>
    /\ UNCHANGED <<utilVars, config, idx, readerVars, chunk, parts, chanVars, remote, wire, hist>>

\* An endpoint write that adds the line terminator of the echo.
JoinWriteAllLine(ok) ==
    /\ pc = "join"
    /\ r1 = "pending"
    /\ IF ok
       THEN /\ remote' = write_all(remote, input[idx + 1] \o <<NL>>)
            /\ r1' = "ok"
       ELSE /\ r1' = "err"
            /\ UNCHANGED remote
    /\ UNCHANGED <<utilVars, config, pc, idx, readerVars, chunk, parts, r2, chanVars, sink,
                   wire, result, hist>>

\* join!: self.write_all(i)
JoinWriteAll(ok) ==
    /\ pc = "join"
    /\ r1 = "pending"
    /\ IF ok
       THEN /\ remote' = write_all(remote, input[idx + 1])
            /\ r1' = "ok"
       ELSE /\ r1' = "err"
            /\ UNCHANGED remote
    /\ UNCHANGED <<utilVars, config, pc, idx, readerVars, chunk, parts, r2, chanVars, sink,
                   wire, result, hist>>

\* join!: stdout.write_all(i).await?
JoinEchoWriteAll(ok) ==
    /\ pc = "join"
    /\ r2 = "write_all"
    /\ IF ok
       THEN /\ sink' = write_all(sink, Sent(input[idx + 1]))
            /\ r2' = "write_u8"
       ELSE /\ r2' = "err"
            /\ UNCHANGED sink
    /\ UNCHANGED <<utilVars, config, pc, idx, readerVars, chunk, parts, r1, chanVars, remote,
                   wire, result, hist>>

\* join!: stdout.write_u8(b'\n').await?
JoinEchoWriteU8(ok) ==
    /\ pc = "join"
    /\ r2 = "write_u8"
    /\ IF ok
       THEN /\ sink' = write_all(sink, Newline)
            /\ r2' = "ok"
       ELSE /\ r2' = "err"
            /\ UNCHANGED sink
    /\ UNCHANGED <<utilVars, config, pc, idx, readerVars, chunk, parts, r1, chanVars, remote,
                   wire, result, hist>>

\* join! returns (r1, r2); r1?; r2?; the loop goes on.
JoinDone ==
    /\ pc = "join"
    /\ join_ready(r1, r2)
    /\ IF join_result(r1, r2)[1] # "pending"
       THEN /\ result' = join_result(r1, r2)
            /\ pc' = "done"
            /\ UNCHANGED <<idx, buf, dropped, joinVars, hist>>
       ELSE /\ r1' = "none"
            /\ r2' = "none"
            /\ idx' = idx + 1
            /\ Advance(idx + 1)
            /\ hist' = [hist EXCEPT !.callBytes = <<>>, !.idleRun = 0,
                                    !.cancelled = FALSE]
            /\ UNCHANGED result
    /\ UNCHANGED <<utilVars, config, first, chunk, parts, chanVars, ioVars>>

\* final drain: for string in chunk.split("\n") { if !sender.is_closed() {
FinalIsClosed ==
    /\ pc = "final_is_closed"
    /\ IF ~is_closed(closed)
       THEN /\ pc' = "final_send"
            /\ UNCHANGED parts
       ELSE /\ parts' = Tail(parts)
            /\ pc' = IF Tail(parts) = <<>> THEN "final_stdout" ELSE "final_is_closed"
    /\ UNCHANGED <<utilVars, config, idx, readerVars, chunk, joinVars, chanVars, ioVars,
                   result, hist>>

\* final drain: sender.send(string.to_owned()).unwrap();
FinalSend ==
    /\ pc = "final_send"
    /\ IF closed
       THEN /\ result' = <<"panic", "send.unwrap">>
            /\ pc' = "done"
            /\ UNCHANGED <<queue, parts>>
       ELSE /\ queue' = Append(queue, Head(parts))
            /\ parts' = Tail(parts)
            /\ pc' = IF Tail(parts) = <<>> THEN "final_stdout" ELSE "final_is_closed"
            /\ UNCHANGED result
    /\ UNCHANGED <<utilVars, config, idx, readerVars, chunk, joinVars, closed, ioVars, hist>>

\* final drain: stdout.write_all(chunk.as_bytes()).await?; Ok(())
FinalStdout(ok) ==
    /\ pc = "final_stdout"
    /\ pc' = "done"
    /\ IF ok
       THEN /\ sink' = write_all(sink, Recv(chunk))
            /\ result' = <<"Ok", "">>
       ELSE /\ result' = <<"IOError", "final.stdout">>
            /\ UNCHANGED sink
    /\ UNCHANGED <<utilVars, config, idx, readerVars, chunk, parts, joinVars, chanVars,
                   remote, wire, hist>>

\* The consumer drops (or closes) the receiver while the future is alive.
DropReceiver ==
    /\ pc # "done"
    /\ ~closed
    /\ closed' = TRUE
    /\ UNCHANGED <<utilVars, config, pc, idx, readerVars, chunk, parts, joinVars, queue,
                   ioVars, result, hist>>

\* The remote side produces one more byte.
RemoteEmit(b) ==
    /\ pc # "done"
    /\ hist.produced < MaxBytes
    /\ wire' = Append(wire, b)
    /\ hist' = [hist EXCEPT !.produced = @ + 1, !.emitted = Append(@, b)]
    /\ UNCHANGED <<utilVars, config, pc, idx, readerVars, chunk, parts, joinVars, chanVars,
                   sink, remote, result>>

Next ==
    \/ Poll
    \/ ReadFirst
    \/ ReadFirstErr
    \/ DrainByte
    \/ DrainTimeout
    \/ DrainIoErr
    \/ WriteIsClosed
    \/ WriteSend
    \/ \E ok \in BOOLEAN : WriteStdout(ok)
    \/ \E ok \in BOOLEAN : JoinWriteAll(ok)
    \/ \E ok \in BOOLEAN : JoinEchoWriteAll(ok)
    \/ \E ok \in BOOLEAN : JoinEchoWriteU8(ok)
    \/ JoinDone
    \/ FinalIsClosed
    \/ FinalSend
    \/ \E ok \in BOOLEAN : FinalStdout(ok)
    \/ DropReceiver
    \/ \E b \in RemoteBytes : RemoteEmit(b)

Spec == Init /\ [][Next]_vars

\* The steps the driver takes by itself once the caller awaits the future:
\* every timed read completes (a byte, the timeout or an error), a pending
\* untimed read completes when a byte is there, and sends and writes complete.
Scheduled ==
    \/ ReadFirst
    \/ DrainByte
    \/ DrainTimeout
    \/ DrainIoErr
    \/ WriteIsClosed
    \/ WriteSend
    \/ \E ok \in BOOLEAN : WriteStdout(ok)
    \/ \E ok \in BOOLEAN : JoinWriteAll(ok)
    \/ \E ok \in BOOLEAN : JoinEchoWriteAll(ok)
    \/ \E ok \in BOOLEAN : JoinEchoWriteU8(ok)
    \/ JoinDone
    \/ FinalIsClosed
    \/ FinalSend
    \/ \E ok \in BOOLEAN : FinalStdout(ok)

\* The caller drives the task to completion.
FairSpec == Spec /\ WF_vars(Scheduled)

TypeOK ==
    /\ REPEAT \in 1..MaxRepeat
    /\ input \in Plans
    /\ pc \in {"cold", "read_u8", "read_last", "write_is_closed", "write_send",
               "write_stdout", "join", "final_is_closed", "final_send",
               "final_stdout", "done"}
    /\ idx \in 0..Len(input)
    /\ closed \in BOOLEAN
    /\ r1 \in {"none", "pending", "ok", "err"}
    /\ r2 \in {"none", "write_all", "write_u8", "ok", "err"}
    /\ result[1] \in {"pending", "Ok", "FromUtf8Error", "IOError", "SendError", "panic"}
    /\ (pc = "done") = (result[1] # "pending")

(* ------------------- util: pad_left, pad_right, hex_to_bytes ----------- *)

\* Byte sequences the padding functions are called on have at most MaxLen
\* bytes, FINAL is at most MaxFinal, and hex_to_bytes is called on numbers of
\* at most MaxDigits hex digits.
MaxLen == 3
MaxFinal == 4
MaxDigits == 5

UtilBytes == {0, 7, 9}
HexDigits == {0, 1, 2, 3, 10, 15}

ByteSeqs == UNION {[1..n -> UtilBytes] : n \in 0..MaxLen}

RECURSIVE FromDigits(_)
FromDigits(ds) ==
    IF ds = <<>> THEN 0 ELSE 16 * FromDigits(SubSeq(ds, 1, Len(ds) - 1)) + ds[Len(ds)]
Nums == {FromDigits(ds) : ds \in UNION {[1..n -> HexDigits] : n \in 1..MaxDigits}}

\* pad_left::<F>: r[index] = iterator.next() or 0, for index in (0..F).rev().
\* Position F (index F-1) takes the first item, position F-1 the second, ...
pad_left(s, F) ==
    [p \in 1..F |-> IF F - p + 1 <= Len(s) THEN s[F - p + 1] ELSE 0]

\* A pad_right whose copy stops one item early.
pad_right_short(s, F) ==
    [p \in 1..F |-> IF p < Len(s) THEN s[p] ELSE 0]

\* pad_right::<F>: r[index] = iterator.next() or 0, for index in 0..F.
pad_right(s, F) ==
    [p \in 1..F |-> IF p <= Len(s) THEN s[p] ELSE 0]

\* The lower-case hex digit for d, as its character code ('0'..'9', 'a'..'f').
hex_char(d) == IF d < 10 THEN 48 + d ELSE 87 + d

RECURSIVE format_x(_)
\* format!("{:x}", n): the hex digits of n, most significant first.
format_x(n) ==
    IF n < 16 THEN <<hex_char(n)>>
    ELSE format_x(n \div 16) \o <<hex_char(n % 16)>>

\* An even-length fix that adds the zero at the end.
even_len_right(r) == IF Len(r) % 2 = 1 THEN r \o <<48>> ELSE r

\* if r.len() % 2 == 1 { r = "0".to_owned() + &r }
even_len(r) == IF Len(r) % 2 = 1 THEN <<48>> \o r ELSE r

\* The value of one hex digit character, as u8::from_str_radix reads it.
digit_val(c) ==
    IF c >= 48 /\ c <= 57 THEN c - 48
    ELSE IF c >= 97 /\ c <= 102 THEN c - 87
    ELSE c - 55

\* u8::from_str_radix(pair, 16)
from_str_radix(pair) == 16 * digit_val(pair[1]) + digit_val(pair[2])

\* hex_to_bytes: format, make the length even, parse each chunk of two.
hex_to_bytes(n) ==
    LET s == even_len(format_x(n))
    IN  [i \in 1..(Len(s) \div 2) |-> from_str_radix(SubSeq(s, 2 * i - 1, 2 * i))]

\* The driver is not involved in a util call.
DriverParked == DriverInit /\ REPEAT = 1 /\ input = <<>> /\ closed

UtilInit ==
    /\ DriverParked
    /\ ret = NoCall
    /\ \/ arg \in ByteSeqs /\ FINAL \in 0..MaxFinal /\ num = 0
       \/ arg = <<>> /\ FINAL = 0 /\ num \in Nums

CallPadLeft ==
    /\ ret = NoCall
    /\ ret' = [fn |-> "pad_left", val |-> pad_left(arg, FINAL)]
    /\ UNCHANGED <<driverVars, arg, FINAL, num>>

CallPadRight ==
    /\ ret = NoCall
    /\ ret' = [fn |-> "pad_right", val |-> pad_right(arg, FINAL)]
    /\ UNCHANGED <<driverVars, arg, FINAL, num>>

CallHexToBytes ==
    /\ ret = NoCall
    /\ ret' = [fn |-> "hex_to_bytes", val |-> hex_to_bytes(num)]
    /\ UNCHANGED <<driverVars, arg, FINAL, num>>

UtilNext ==
    \/ CallPadLeft
    \/ CallPadRight
    \/ CallHexToBytes

UtilSpec == UtilInit /\ [][UtilNext]_vars

(* ------------------------- observation helpers ------------------------- *)

Count(log, k) == Cardinality({j \in 1..Len(log) : log[j].kind = k})
Echoes == Count(sink, "sent_nl")
Marked(d) == Cardinality({i \in DOMAIN d : d[i]})
Min(a, b) == IF a < b THEN a ELSE b

\* A read (read_u8 of read_chunk, or read_last_chunk) is in progress.
Reading == pc \in {"read_u8", "read_last"}
\* read_last_chunk has just returned (to read_chunk or to the driver).
DrainReturned ==
    \/ pc \in {"write_is_closed", "final_is_closed"}
    \/ result = <<"FromUtf8Error", "read_last_chunk">>
\* read_chunk has returned a value.
ChunkReturned == InLoop /\ pc \in {"write_is_closed", "write_send", "write_stdout"}
\* read_chunk has returned an error.
ChunkFailed ==
    InLoop /\ result[1] = "FromUtf8Error"

(* ------------------------------- claims -------------------------------- *)

\* C1: endpoint operations are strictly sequenced.  Payload i is written to
\* the endpoint (and echoed) only after the i-th read has returned, and while
\* a read is in progress every payload of the finished turns has been written
\* to the endpoint and echoed in full.
C1_Sequenced ==
    /\ Len(remote) <= hist.reads
    /\ Count(sink, "sent") <= hist.reads
    /\ Reading => /\ Len(remote) = hist.reads
                  /\ Echoes = hist.reads
                  /\ remote = SubSeq(input, 1, hist.reads)

C1_Witness ==
    /\ pc = "read_last"
    /\ ~InLoop
    /\ hist.reads = 2
    /\ Len(remote) = 2
    /\ Echoes = 2

\* C2: on a successful run over k payloads the local sink holds k+1 received
\* chunks and k echoes (payload then newline), alternating and starting and
\* ending with a received chunk.
C2_Alternating ==
    result[1] = "Ok" =>
        /\ Len(sink) = 3 * Len(input) + 1
        /\ Count(sink, "recv") = Len(input) + 1
        /\ Count(sink, "sent") = Len(input)
        /\ \A j \in 1..Len(sink) :
              sink[j].kind = IF j % 3 = 1 THEN "recv"
                             ELSE IF j % 3 = 2 THEN "sent" ELSE "sent_nl"
        /\ \A i \in 1..Len(input) : sink[3 * i - 1].data = input[i]

C2_Witness == result[1] = "Ok" /\ Len(input) = 2 /\ Len(sink) = 7

\* C3 (as claimed): read_last_chunk returns exactly on the REPEAT-th
\* consecutive idle signal: it never attempts a read once REPEAT consecutive
\* idle signals have occurred, and it has seen exactly REPEAT of them when it
\* returns.
C3_BoundaryAtRepeat ==
    /\ pc = "read_last" => hist.idleRun < REPEAT
    /\ DrainReturned => hist.idleRun = REPEAT

\* C4: a byte read by read_last_chunk is appended to the accumulator and
\* clears every debounce slot, so the marked slots count the idle signals
\* since the last byte, and at the return all counted idle signals are later
\* than the last byte read.
C4_ByteResetsDebounce ==
    /\ pc = "read_last" =>
          /\ Marked(dropped) = Min(hist.idleRun, REPEAT)
          /\ hist.callBytes = (IF InLoop THEN first ELSE <<>>) \o buf
    /\ DrainReturned => Marked(dropped) + 1 <= hist.idleRun

C4_Witness ==
    /\ DrainReturned
    /\ hist.cancelled
    /\ result[1] = "pending"
    /\ Len(buf) >= 1

\* C5: read_chunk returns (a value or a decode error) only after it has read
\* a first byte, its value is never empty, and no idle signal is consumed
\* while it waits for the first byte.
C5_FirstByteAwaited ==
    /\ ChunkReturned => chunk # <<>> /\ chunk = hist.callBytes
    /\ ChunkFailed => hist.callBytes # <<>>
    /\ pc = "read_u8" => hist.idleRun = 0 /\ hist.callBytes = <<>>

C5_Witness == ChunkReturned /\ Len(chunk) = 1 /\ pc = "write_is_closed"

\* C6 (as claimed): read_chunk decodes the run of bytes that starts with the
\* awaited first byte as a whole: it fails with a decode error only if that
\* run (the bytes it has read followed by the bytes already waiting behind
\* them on the endpoint) is not valid UTF-8, and a value it returns is the
\* bytes it has read.
C6_WholeRunDecoded ==
    /\ ChunkFailed => ~from_utf8(hist.callBytes \o wire)
    /\ ChunkReturned => from_utf8(chunk) /\ chunk = hist.callBytes

\* C7 (as claimed): whenever the consumer drops the receiver, the driver
\* neither fails with a send error nor panics on a send.
C7_DropNeverFails ==
    /\ result[1] # "SendError"
    /\ result # <<"panic", "send.unwrap">>

\* C8: when the receiver is already dropped at the first poll (always so for
\* run), no line is ever queued, the driver never attempts a send and never
\* fails on the queue, and every chunk read and every payload echo reaches
\* the local sink: a successful run leaves k+1 chunks and k echoes there.
C8_DroppedBeforeStart ==
    hist.closedAtPoll =>
        /\ queue = <<>>
        /\ pc \notin {"write_send", "final_send"}
        /\ result[1] # "SendError"
        /\ result # <<"panic", "send.unwrap">>
        /\ pc = "join" => Count(sink, "recv") = hist.reads
        /\ Reading => Count(sink, "recv") = hist.reads /\ Echoes = hist.reads
        /\ result[1] = "Ok" =>
              /\ Count(sink, "recv") = Len(input) + 1
              /\ Echoes = Len(input)
              /\ remote = input

C8_Witness ==
    /\ hist.closedAtPoll
    /\ hist.entry = "run"
    /\ result[1] = "Ok"
    /\ Len(input) = 2
    /\ \E j \in 1..Len(sink) : sink[j].kind = "recv" /\ Len(sink[j].data) >= 2

\* C9: there is no partial success.  The run is Ok only if every payload was
\* written and echoed and the final drain was read and written out; a failed
\* join branch is never followed by a further turn; and once the run has
\* returned, nothing more is read, written or queued.
C9_State ==
    /\ result[1] = "Ok" =>
          /\ remote = input
          /\ Echoes = Len(input)
          /\ hist.reads = Len(input) + 1
          /\ Count(sink, "recv") = Len(input) + 1
    /\ (r1 = "err" \/ r2 = "err") =>
          \/ pc = "join"
          \/ pc = "done" /\ result[1] = "IOError"
    /\ result = <<"IOError", "self.write_all">> => r1 = "err"
    /\ result = <<"IOError", "stdout.echo">> => r1 = "ok" /\ r2 = "err"
    /\ result[1] = "FromUtf8Error" =>
          /\ ~from_utf8(hist.callBytes)
          /\ Len(remote) = hist.reads
          /\ Count(sink, "recv") = hist.reads
    /\ result[1] \notin {"pending", "Ok"} =>
          /\ Len(remote) <= Len(input)
          /\ Count(sink, "recv") <= Len(input)

C9_NoPartialSuccess ==
    /\ []C9_State
    /\ [][result[1] # "pending" =>
              /\ UNCHANGED <<remote, sink, queue, result>>
              /\ hist'.reads = hist.reads
              /\ Len(wire') >= Len(wire)]_vars

C9_Witness ==
    /\ result = <<"IOError", "stdout.echo">>
    /\ r1 = "ok"
    /\ idx = 0
    /\ Len(input) = 2
    /\ Len(remote) = 1

\* C10 (as claimed): in read_last_chunk a transport error is not an idle
\* signal: right after it the read is over and the failure is the outcome.
C10_TransportErrorAborts ==
    (hist.lastRead = "ioerr" /\ result[2] # "read_u8.unwrap") =>
        (pc = "done" /\ result[1] = "IOError")

\* C11 (as claimed): when the untimed read of the first byte in read_chunk
\* fails with an I/O error, the failure is returned to the caller as the
\* IOError outcome of the run; the task does not end abnormally.
C11_FirstByteErrorPropagates ==
    (InLoop /\ hist.lastRead = "ioerr" /\ hist.callBytes = <<>> /\ pc # "read_last") =>
        (pc = "done" /\ result[1] = "IOError")

\* C12: run_with_channel is cold.  As long as the caller has not polled the
\* task, no byte has been read from or written to the endpoint, nothing has
\* been written to the local sink, no line is on the queue, and the run has
\* no outcome.
C12_ColdTask ==
    ~hist.polled =>
        /\ remote = <<>>
        /\ sink = <<>>
        /\ queue = <<>>
        /\ Len(wire) = hist.produced
        /\ hist.reads = 0
        /\ result[1] = "pending"

C12_Witness ==
    /\ ~hist.polled
    /\ hist.entry = "run_with_channel"
    /\ Len(wire) = 2
    /\ Len(input) = 1

\* C13: once the plan is exhausted the driver reads the trailing output with
\* one read_last_chunk and never waits untimed for a first byte; a final
\* drain that read no byte yields the empty text, not an error; and, the
\* caller driving the task, a final drain that gets no further byte from the
\* endpoint ends, after which the run is over.  The run is then Ok unless a
\* later step (forwarding or the write to the local sink) fails.
C13_State ==
    /\ (hist.polled /\ ~InLoop) => pc # "read_u8"
    /\ hist.reads <= Len(input) + 1
    /\ pc \in {"final_is_closed", "final_send", "final_stdout"} =>
          /\ hist.reads = Len(input) + 1
          /\ hist.callBytes = <<>> => chunk = <<>>
    /\ result = <<"FromUtf8Error", "read_last_chunk">> => hist.callBytes # <<>>
    /\ (pc = "done" /\ ~InLoop /\ hist.callBytes = <<>>) =>
          /\ result[2] \in {"", "final.stdout", "send.unwrap"}
          /\ result[2] = "" => (result[1] = "Ok" /\ sink[Len(sink)] = Recv(<<>>))
          /\ hist.closedAtPoll => result[2] # "send.unwrap"

C13_FinalDrainTerminates ==
    /\ []C13_State
    /\ \A n \in 0..MaxBytes :
          (pc = "read_last" /\ ~InLoop /\ hist.produced = n)
              ~> (pc = "done" \/ hist.produced > n)

C13_Witness ==
    /\ result[1] = "Ok"
    /\ hist.entry = "run"
    /\ input = <<>>
    /\ hist.produced = 0
    /\ sink = <<Recv(<<>>)>>

RECURSIVE Flatten(_)
Flatten(ss) == IF ss = <<>> THEN <<>> ELSE Head(ss) \o Flatten(Tail(ss))
\* The chunks written to the local sink so far, in order.
RecvChunks == [j \in 1..Count(sink, "recv") |-> sink[3 * j - 2].data]

\* C14: whatever the debounce count and however the bytes and the pauses
\* shorter than a boundary alternate, the text read_last_chunk returns at the
\* boundary is exactly the bytes it read, each once and in arrival order: the
\* bytes handed out in earlier chunks, then the returned bytes, then the
\* bytes still unread on the endpoint are the stream the remote side sent.
C14_DrainKeepsBytes ==
    /\ pc = "final_is_closed" =>
          /\ chunk = hist.callBytes
          /\ from_utf8(chunk)
          /\ Flatten(RecvChunks) \o chunk \o wire = hist.emitted
    /\ pc = "write_is_closed" =>
          /\ buf = Tail(hist.callBytes)
          /\ from_utf8(buf)
          /\ Flatten(RecvChunks) \o first \o buf \o wire = hist.emitted
    /\ result = <<"FromUtf8Error", "read_last_chunk">> =>
          /\ ~from_utf8(buf)
          /\ (IF InLoop THEN first ELSE <<>>) \o buf = hist.callBytes

C14_Witness ==
    /\ pc = "final_is_closed"
    /\ REPEAT = 2
    /\ hist.cancelled
    /\ hist.idleRun = REPEAT + 1
    /\ Len(chunk) = 3

NewlinesIn(s) == Cardinality({i \in 1..Len(s) : s[i] = NL})
RECURSIVE JoinNL(_)
JoinNL(ls) ==
    IF Len(ls) = 1 THEN ls[1] ELSE ls[1] \o <<NL>> \o JoinNL(Tail(ls))
\* The last n lines placed on the queue.
LastLines(n) == SubSeq(queue, Len(queue) - n + 1, Len(queue))
\* The chunk in hand has been offered to the channel in full and the
\* consumer is still connected, so every line of it was sent.
Forwarded == pc \in {"write_stdout", "final_stdout"} /\ ~closed

\* C15: the lines queued for a chunk forwarded to a connected consumer are
\* the chunk split at its newlines, in order: one line more than the chunk
\* has newlines (so a trailing newline gives a last empty line and the empty
\* chunk gives one empty line), none containing a newline, and joined with
\* newlines they give back the chunk.
C15_LinesAreSplit ==
    Forwarded =>
        /\ Len(queue) >= NewlinesIn(chunk) + 1
        /\ LET ls == LastLines(NewlinesIn(chunk) + 1) IN
              /\ JoinNL(ls) = chunk
              /\ \A j \in 1..Len(ls) : NewlinesIn(ls[j]) = 0
        /\ Len(queue) = Len(RecvChunks) + NewlinesIn(Flatten(RecvChunks) \o chunk) + 1

C15_Witness ==
    /\ Forwarded
    /\ pc = "write_stdout"
    /\ chunk = <<65, 10>>
    /\ LastLines(2) = <<(<<65>>), (<<>>)>>

\* The lines of the first n chunks written to the local sink, chunk by chunk.
LinesOfChunks(n) == Flatten([j \in 1..n |-> split(RecvChunks[j])])
IsPrefix(a, b) == Len(a) <= Len(b) /\ a = SubSeq(b, 1, Len(a))

\* C16: with the consumer connected, when payload i is written to the
\* endpoint every line of prompt chunks 1..i is already on the queue, and the
\* queue holds the lines chunk after chunk in the order the chunks were read
\* (prompt 1, ..., prompt k, final drain).
C16_LinesBeforePayload ==
    ~closed =>
        /\ Len(remote) <= Len(RecvChunks)
        /\ IsPrefix(LinesOfChunks(Len(remote)), queue)
        /\ (pc = "join" /\ r1 = "pending") =>
              /\ Len(RecvChunks) = idx + 1
              /\ queue = LinesOfChunks(idx + 1)
        /\ IsPrefix(LinesOfChunks(Len(RecvChunks)), queue)
        /\ result[1] = "Ok" => queue = LinesOfChunks(Len(input) + 1)

C16_Witness ==
    /\ ~closed
    /\ pc = "join"
    /\ r1 = "ok"
    /\ idx = 1
    /\ Len(remote) = 2
    /\ Len(queue) = 3

\* The bytes of the echoes on the local sink, in order.
RECURSIVE EchoBytes(_)
EchoBytes(log) ==
    IF log = <<>> THEN <<>>
    ELSE (IF Head(log).kind = "recv" THEN <<>> ELSE Head(log).data)
         \o EchoBytes(Tail(log))
PlanLines == [i \in 1..Len(input) |-> input[i] \o <<NL>>]

\* C20: the endpoint only ever receives payloads of the plan, unmodified,
\* each once and in plan order; after a successful run it has received
\* exactly p1 ++ ... ++ pk with no terminator added, and the local sink has
\* received each payload followed by exactly one newline.
C20_PayloadsVerbatim ==
    /\ IsPrefix(remote, input)
    /\ IsPrefix(EchoBytes(sink), Flatten(PlanLines))
    /\ result[1] = "Ok" =>
          /\ remote = input
          /\ Flatten(remote) = Flatten(input)
          /\ EchoBytes(sink) = Flatten(PlanLines)

C20_Witness ==
    /\ result[1] = "Ok"
    /\ Len(input) = 2
    /\ Flatten(remote) = <<97, 98, 10>>
    /\ EchoBytes(sink) = <<97, 10, 98, 10, 10>>

Zeros(n) == [i \in 1..n |-> 0]
LastN(s, n) == SubSeq(s, Len(s) - n + 1, Len(s))
FirstN(s, n) == SubSeq(s, 1, n)

\* C17 (as claimed): pad_left::<FINAL>(s) is the last FINAL items of FINAL
\* zero bytes followed by s: zero-filled on the left when s is short, s
\* without its leftmost excess bytes when s is long, the bytes of s in their
\* original order.
C17_PadLeft ==
    ret.fn = "pad_left" => ret.val = LastN(Zeros(FINAL) \o arg, FINAL)

\* C18: pad_right::<FINAL>(s) is the first FINAL items of s followed by
\* FINAL zero bytes: s then FINAL - len(s) zeros when s is short, s without
\* its rightmost excess bytes when s is long.
C18_PadRight ==
    ret.fn = "pad_right" =>
        /\ Len(ret.val) = FINAL
        /\ ret.val = FirstN(arg \o Zeros(FINAL), FINAL)
        /\ Len(arg) <= FINAL => ret.val = arg \o Zeros(FINAL - Len(arg))
        /\ Len(arg) > FINAL => ret.val = SubSeq(arg, 1, FINAL)

C18_Witness ==
    /\ ret.fn = "pad_right"
    /\ arg = <<7, 0, 9>>
    /\ FINAL = 2
    /\ ret.val = <<7, 0>>


RECURSIVE FromBE(_)
\* The number a byte sequence denotes, most significant byte first.
FromBE(bs) ==
    IF bs = <<>> THEN 0 ELSE 256 * FromBE(SubSeq(bs, 1, Len(bs) - 1)) + bs[Len(bs)]

RECURSIVE HexLen(_)
\* How many hex digits a number has without leading zeros (0 has one).
HexLen(n) == IF n < 16 THEN 1 ELSE 1 + HexLen(n \div 16)

\* C19: hex_to_bytes of a non-negative number returns its big-endian base-256
\* digits: every item is a byte, read back big-endian the result is the
\* number, the length is minimal (one byte per hex pair, no leading zero byte
\* except the single byte 0 for the number 0), and an odd number of hex digits
\* is completed by a leading zero nibble (the first byte is below 16).
C19_HexToBytes ==
    ret.fn = "hex_to_bytes" =>
        /\ \A i \in 1..Len(ret.val) : ret.val[i] \in 0..255
        /\ FromBE(ret.val) = num
        /\ Len(ret.val) = (HexLen(num) + 1) \div 2
        /\ Len(ret.val) >= 1
        /\ num = 0 => ret.val = <<0>>
        /\ num # 0 => ret.val[1] # 0
        /\ HexLen(num) % 2 = 1 => ret.val[1] < 16

\* 0x12030 has five hex digits and yields [0x01, 0x20, 0x30].
C19_Witness ==
    /\ ret.fn = "hex_to_bytes"
    /\ num = 73776
    /\ ret.val = <<1, 32, 48>>

====
